---- MODULE Spec2Model ----
(***************************************************************************)
(* The transcription job pipeline of app.py: one job, submitted through    *)
(* /api/submit (YouTube link) or /api/upload (media file), run by its      *)
(* background thread through acquire -> mp3 -> transcribe -> persist ->    *)
(* notify -> cleanup, with the failures the external collaborators can     *)
(* produce (record store, download, ffmpeg/ffprobe, remote transcription,  *)
(* Telegram, os.remove).                                                   *)
(***************************************************************************)
EXTENDS Integers, Sequences, FiniteSets, TLC

(* ------------------------------ bounds -------------------------------- *)

\* The normalized mp3 lasts up to this many times max_duration.
MaxDurUnits == 2
\* At most this many record-store calls fail in one run.
MaxStoreFaults == 1

(* ------------------------- program constants -------------------------- *)

max_size == 24 * 1024 * 1024
max_duration == 600
ALLOWED_EXTENSIONS == {"mp4", "webm", "mkv", "avi", "mov", "m4a", "mp3", "wav"}

(* ------------------------------ inputs -------------------------------- *)

\* Extensions an upload is tried with: the target container, another allowed
\* one, and one that is refused.
UploadExts == {"mp3", "wav", "txt"}
\* Byte sizes on both sides of the ceiling, boundary included.
Sizes == {max_size, max_size + 1}
\* Durations in seconds of a normalized mp3: multiples of max_duration, one
\* second past the first, and half a chunk past the last.
Durations == {k * max_duration : k \in 1..MaxDurUnits}
             \cup {max_duration + 1, MaxDurUnits * max_duration + 300}
Titles == {"T"}

(* ------------------------------ paths --------------------------------- *)

\* A path of DOWNLOAD_DIR: the part after the record id, the chunk number,
\* and whether '.mp3' was replaced by '_small.mp3'.
Path(name, i, small) == [name |-> name, i |-> i, small |-> small]
NoPath == Path("None", 0, FALSE)
\* f"{record_id}_audio"
AudioPath == Path("_audio", 0, FALSE)
\* f"{record_id}.mp3"
Mp3Path == Path(".mp3", 0, FALSE)
\* f"{record_id}.{ext}"
SavedPath(ext) == IF ext = "mp3" THEN Mp3Path ELSE Path(ext, 0, FALSE)
\* f"{base_name}_chunk_{i}.mp3", base_name being the audio path without '.mp3'
ChunkPath(audio, i) == Path("_chunk_", i, audio.small)
\* chunk_path.replace('.mp3', '_small.mp3')
SmallPath(p) == [p EXCEPT !.small = TRUE]
\* file_path.lower().endswith('.mp3')
EndsWithMp3(p) == p.name \in {".mp3", "_chunk_"}

(* ------------------------------ text ---------------------------------- *)

\* A text is the sequence of its characters; what is spoken in the audio at
\* path p is one word, told apart by the chunk it comes from.
Char(c, n) == [c |-> c, n |-> n]
Speech(p) == <<Char("w", p.i)>>
Blank == <<Char("\n", 0), Char("\n", 0)>>

RECURSIVE Join(_, _)
\* sep.join(ts)
Join(sep, ts) ==
    IF ts = <<>> THEN <<>>
    ELSE IF Len(ts) = 1 THEN ts[1]
    ELSE ts[1] \o sep \o Join(sep, Tail(ts))

(* --------------------------- record store ----------------------------- *)

Status(tag, msg) == [tag |-> tag, msg |-> msg]
Processing == Status("processing", "")
\* f"error: {error_msg[:200]}" (the messages of the model are shorter than 200)
ErrorStatus(msg) == Status("error", msg)
IsError(st) == st.tag = "error"
NoStatus == Status("", "")
NoRecord == [status |-> NoStatus, progress |-> 0, title |-> "", subtitle |-> {}]

VARIABLES
    pc,            \* where the request handler / the job's thread stands
    kind,          \* "youtube" or "file": which task the thread runs
    record,        \* the job's row of youtube_stt
    writes,        \* the updates the pipeline applied to the row, in order
    storeFaults,   \* record-store calls that raised so far
    disk,          \* DOWNLOAD_DIR: path -> byte size, for the files there
    duration,      \* the true length in seconds of the normalized mp3
    upload,        \* the extension and byte size of the uploaded file
    file_path, source_file, mp3_path, title, subtitle_text, error_msg,
    file_size,     \* os.path.getsize(audio_path) at the top of transcribe
    chunks, num_chunks, ci, chunk_path, transcripts,   \* locals of transcribe/split
    remote,        \* calls the remote capability received: path, size, reply
    subprocs,      \* ffmpeg runs, in order: "normalize", "split", "reencode"
    splits,        \* calls of split_audio_file
    sent,          \* messages handed to send_telegram_message, in order
    raised,        \* the pipeline stage whose exception entered the handler
    probed,        \* what get_audio_duration returned to split_audio_file
    cuts,          \* the -ss and -t arguments of the ffmpeg runs of the splitter
    edits,         \* the statuses under which update_record stored a title
    jobs           \* two concurrent jobs: id, task, files and rows touched

vars == <<pc, kind, record, writes, storeFaults, disk, duration, upload,
          file_size, file_path, source_file, mp3_path, title, subtitle_text, error_msg, chunks,
          num_chunks, ci, chunk_path, transcripts, remote, subprocs, splits,
          sent, raised, probed, cuts, edits, jobs>>

NoUpload == [ext |-> "", size |-> 0]
localVars == <<upload, file_size, file_path, source_file, mp3_path, title,
               subtitle_text>>
splitVars == <<chunks, num_chunks, ci, chunk_path, transcripts>>
logVars == <<remote, subprocs, splits, sent>>
newVars == <<probed, cuts, edits, jobs>>
mainVars == <<pc, kind, record, writes, storeFaults, disk, duration, localVars,
              error_msg, splitVars, logVars, raised, probed, cuts>>

Exists(p) == p \in DOMAIN disk
Put(d, p, size) == [q \in DOMAIN d \cup {p} |-> IF q = p THEN size ELSE d[q]]
Remove(d, p) == [q \in DOMAIN d \ {p} |-> d[q]]
EmptyDisk == [q \in {} |-> 0]

Init ==
    /\ pc = "idle"
    /\ kind = "none"
    /\ record = NoRecord
    /\ writes = <<>>
    /\ storeFaults = 0
    /\ disk = EmptyDisk
    /\ duration = 0
    /\ upload = NoUpload
    /\ file_size = 0
    /\ file_path = NoPath
    /\ source_file = NoPath
    /\ mp3_path = NoPath
    /\ title = ""
    /\ subtitle_text = <<>>
    /\ error_msg = ""
    /\ chunks = <<>>
    /\ num_chunks = 0
    /\ ci = 0
    /\ chunk_path = NoPath
    /\ transcripts = <<>>
    /\ remote = <<>>
    /\ subprocs = <<>>
    /\ splits = 0
    /\ sent = <<>>
    /\ raised = ""
    /\ probed = -1
    /\ cuts = <<>>
    /\ edits = {}
    /\ jobs = <<>>

\* A record-store call may raise while the fault budget lasts.
StoreMayFail == storeFaults < MaxStoreFaults

\* supabase.table(...).update(fields).eq("id", record_id).execute(), applied
Apply(rec, w) ==
    [status   |-> IF w.status = NoStatus THEN rec.status ELSE w.status,
     progress |-> w.progress,
     title    |-> IF w.title = "" THEN rec.title ELSE w.title,
     subtitle |-> IF w.subtitle = {} THEN rec.subtitle ELSE w.subtitle]

Write(st, progress, ttl, sub) ==
    [status |-> st, progress |-> progress, title |-> ttl, subtitle |-> sub]

\* The except clause of the task is entered with str(e) = msg.
Raise(msg, stage) ==
    /\ error_msg' = msg
    /\ raised' = stage
    /\ pc' = "h_write"

(* --------------------------- submit routes ---------------------------- *)

allowed_file(ext) == ext \in ALLOWED_EXTENSIONS

\* POST /api/submit: insert the row as pending and start the thread.
submit_youtube ==
    /\ pc = "idle"
    /\ \E url \in {"", "u"} :
        \/ /\ url = ""
           /\ pc' = "rejected"
           /\ UNCHANGED <<kind, record, storeFaults>>
        \/ /\ url # ""
           /\ StoreMayFail
           /\ storeFaults' = storeFaults + 1
           /\ pc' = "rejected"
           /\ UNCHANGED <<kind, record>>
        \/ /\ url # ""
           /\ record' = [NoRecord EXCEPT !.status = Status("pending", "")]
           /\ kind' = "youtube"
           /\ pc' = "cp5"
           /\ UNCHANGED storeFaults
    /\ UNCHANGED <<writes, disk, duration, localVars, error_msg, splitVars,
                   logVars, newVars, raised>>

\* POST /api/upload: keep the media file, copy it to DOWNLOAD_DIR as
\* f"{record_id}.{ext}", insert the row as pending and start the thread.
upload_file ==
    /\ pc = "idle"
    /\ \E ext \in UploadExts, size \in Sizes :
        \/ /\ ~allowed_file(ext)
           /\ pc' = "rejected"
           /\ UNCHANGED <<kind, record, storeFaults, disk, file_path, upload>>
        \/ /\ allowed_file(ext)
           /\ StoreMayFail
           /\ disk' = Put(disk, SavedPath(ext), size)
           /\ storeFaults' = storeFaults + 1
           /\ pc' = "rejected"
           /\ UNCHANGED <<kind, record, file_path, upload>>
        \/ /\ allowed_file(ext)
           /\ disk' = Put(disk, SavedPath(ext), size)
           /\ record' = [NoRecord EXCEPT !.status = Status("pending", ""),
                                         !.title = "upload"]
           /\ kind' = "file"
           /\ file_path' = SavedPath(ext)
           /\ upload' = [ext |-> ext, size |-> size]
           /\ pc' = "cp5"
           /\ UNCHANGED storeFaults
    /\ UNCHANGED <<writes, duration, file_size, source_file, mp3_path, title,
                   subtitle_text, error_msg, splitVars, logVars, newVars, raised>>

(* ------------------------- progress checkpoints ----------------------- *)

Checkpoints == {"cp5", "cp10", "cp15", "cp30", "cp40", "cp50", "cp60", "cp95"}

\* CheckpointProgress with the 40 of the third stage mistyped as 4.
CheckpointProgressDip(p) ==
    CASE p = "cp5" -> 5   [] p = "cp10" -> 10 [] p = "cp15" -> 15
      [] p = "cp30" -> 30 [] p = "cp40" -> 4  [] p = "cp50" -> 50
      [] p = "cp60" -> 60 [] p = "cp95" -> 95

\* The percentage each update_progress call of the two tasks writes.
CheckpointProgress(p) ==
    CASE p = "cp5" -> 5   [] p = "cp10" -> 10 [] p = "cp15" -> 15
      [] p = "cp30" -> 30 [] p = "cp40" -> 40 [] p = "cp50" -> 50
      [] p = "cp60" -> 60 [] p = "cp95" -> 95

\* The statement that follows each update_progress call.
AfterCheckpoint(k, p) ==
    CASE p = "cp5"  -> (IF k = "youtube" THEN "title" ELSE "cp10")
      [] p = "cp10" -> "normalize"
      [] p = "cp15" -> "download"
      [] p = "cp30" -> "cp40"
      [] p = "cp40" -> "normalize"
      [] p = "cp50" -> "cp60"
      [] p = "cp60" -> "transcribe"
      [] p = "cp95" -> "persist"

\* The fields update_progress(record_id, progress) sends.
ProgressWrite(progress) == Write(Processing, progress, "", {})

\* update_progress: the update is tried and a failure of it is only printed.
update_progress ==
    /\ pc \in Checkpoints
    /\ \/ /\ record' = Apply(record, ProgressWrite(CheckpointProgress(pc)))
          /\ writes' = Append(writes, ProgressWrite(CheckpointProgress(pc)))
          /\ UNCHANGED storeFaults
       \/ /\ StoreMayFail
          /\ storeFaults' = storeFaults + 1
          /\ UNCHANGED <<record, writes>>
    /\ pc' = AfterCheckpoint(kind, pc)
    /\ UNCHANGED <<kind, disk, duration, localVars, error_msg, splitVars,
                   logVars, newVars, raised>>

(* --------------------------- YouTube task ----------------------------- *)

\* The fields of the title update of process_youtube_stt_task.
TitleWrite(t) == Write(NoStatus, 10, t, {})

\* get_youtube_title never raises (placeholder on failure); the update that
\* stores the title with progress 10 is a bare call inside the try block.
resolve_title ==
    /\ pc = "title"
    /\ \E t \in Titles \cup {"no title"} :
        /\ title' = t
        /\ \/ /\ record' = Apply(record, TitleWrite(t))
              /\ writes' = Append(writes, TitleWrite(t))
              /\ pc' = "cp15"
              /\ UNCHANGED <<storeFaults, error_msg, raised>>
           \/ /\ StoreMayFail
              /\ storeFaults' = storeFaults + 1
              /\ Raise("store", "title")
              /\ UNCHANGED <<record, writes>>
    /\ UNCHANGED <<kind, disk, duration, upload, file_size, file_path,
                   source_file, mp3_path, subtitle_text, splitVars, logVars, newVars>>

\* download_youtube_audio: the downloaded file, or an exception with
\* source_file still None.
download ==
    /\ pc = "download"
    /\ \/ /\ source_file' = AudioPath
          /\ disk' = Put(disk, AudioPath, max_size)
          /\ pc' = "cp30"
          /\ UNCHANGED <<error_msg, raised>>
       \/ /\ Raise("download", "download")
          /\ UNCHANGED <<source_file, disk>>
    /\ UNCHANGED <<kind, record, writes, storeFaults, duration, upload,
                   file_size, file_path, mp3_path, title, subtitle_text,
                   splitVars, logVars, newVars>>

\* ffmpeg -i source_file ... mp3_path with check=True.
normalize_youtube ==
    /\ pc = "normalize"
    /\ kind = "youtube"
    /\ mp3_path' = Mp3Path
    /\ subprocs' = Append(subprocs, "normalize")
    /\ \/ /\ \E size \in Sizes, d \in Durations :
                /\ disk' = Put(disk, Mp3Path, size)
                /\ duration' = d
          /\ pc' = "cp50"
          /\ UNCHANGED <<error_msg, raised>>
       \/ /\ \E partial \in BOOLEAN :
                disk' = IF partial THEN Put(disk, Mp3Path, 1) ELSE disk
          /\ Raise("ffmpeg", "normalize")
          /\ UNCHANGED duration
    /\ UNCHANGED <<kind, record, writes, storeFaults, upload, file_size,
                   file_path, source_file, title, subtitle_text, splitVars,
                   remote, splits, newVars, sent>>

(* ---------------------------- upload task ----------------------------- *)

\* shutil.copy(src, dst) refuses a destination that is the source itself.
SameFile(src, dst) == src = dst

\* An .mp3 working copy is copied to mp3_path, anything else goes through
\* ffmpeg.
normalize_file ==
    /\ pc = "normalize"
    /\ kind = "file"
    /\ mp3_path' = Mp3Path
    /\ IF EndsWithMp3(file_path)
       THEN /\ IF SameFile(file_path, Mp3Path)
               THEN /\ Raise("SameFileError", "normalize")
                    /\ UNCHANGED <<disk, duration>>
               ELSE /\ disk' = Put(disk, Mp3Path, disk[file_path])
                    /\ \E d \in Durations : duration' = d
                    /\ pc' = "cp50"
                    /\ UNCHANGED <<error_msg, raised>>
            /\ UNCHANGED subprocs
       ELSE /\ subprocs' = Append(subprocs, "normalize")
            /\ \/ /\ \E size \in Sizes, d \in Durations :
                        /\ disk' = Put(disk, Mp3Path, size)
                        /\ duration' = d
                  /\ pc' = "cp50"
                  /\ UNCHANGED <<error_msg, raised>>
               \/ /\ \E partial \in BOOLEAN :
                        disk' = IF partial THEN Put(disk, Mp3Path, 1) ELSE disk
                  /\ Raise("ffmpeg", "normalize")
                  /\ UNCHANGED duration
    /\ UNCHANGED <<kind, record, writes, storeFaults, upload, file_size,
                   file_path, source_file, title, subtitle_text, splitVars,
                   remote, splits, newVars, sent>>

(* ---------------------------- transcribe ------------------------------ *)

\* One call of openai_client.audio.transcriptions.create, as the remote side
\* sees it.
Call(p, size, ok, text) == [path |-> p, size |-> size, ok |-> ok, text |-> text]

\* JoinTranscripts with a single newline as the separator.
JoinSingleNewline(ts) == Join(<<Char("\n", 0)>>, ts)

\* "\n\n".join(transcripts)
JoinTranscripts(ts) == Join(Blank, ts)

\* float(result.stdout.strip()), or 0 when ffprobe fails.
ProbedDurations(d) == {d, 0}

\* SingleChunk with the 0 of a failed probe taken for "unknown".
SingleChunkKnown(d) == 0 < d /\ d <= max_duration

\* if duration <= max_duration: return [audio_path]
SingleChunk(d) == d <= max_duration

\* start_time = i * max_duration
StartTime(i) == i * max_duration

\* The '-ss' and '-t' arguments of the ffmpeg run that cuts chunk i.
Cut(i) == [ss |-> StartTime(i), t |-> max_duration]

\* NumChunks without the chunk for the remainder.
NumChunksFloor(d) == d \div max_duration

\* int(duration / max_duration) + 1
NumChunks(d) == (d \div max_duration) + 1

\* FitsCeiling with the boundary left out.
FitsCeilingStrict(size) == size < max_size

\* if file_size <= max_size: the whole file goes out in one call
FitsCeiling(size) == size <= max_size

\* transcribe_with_openai, file within the ceiling: one call, its text is
\* returned and update_progress(95) follows.
transcribe_whole ==
    /\ pc = "transcribe"
    /\ FitsCeiling(disk[mp3_path])
    /\ file_size' = disk[mp3_path]
    /\ \/ /\ remote' = Append(remote, Call(mp3_path, disk[mp3_path], TRUE,
                                         Speech(mp3_path)))
          /\ subtitle_text' = Speech(mp3_path)
          /\ pc' = "cp95"
          /\ UNCHANGED <<error_msg, raised>>
       \/ /\ remote' = Append(remote,
                              Call(mp3_path, disk[mp3_path], FALSE, <<>>))
          /\ Raise("openai", "transcribe")
          /\ UNCHANGED subtitle_text
    /\ UNCHANGED <<kind, record, writes, storeFaults, disk, duration, upload,
                   file_path, source_file, mp3_path, title, splitVars,
                   subprocs, splits, newVars, sent>>

\* transcribe_with_openai, file over the ceiling: split_audio_file is entered
\* and probes the duration; a file no longer than max_duration is its own
\* only chunk.
split_audio_file ==
    /\ pc = "transcribe"
    /\ ~FitsCeiling(disk[mp3_path])
    /\ file_size' = disk[mp3_path]
    /\ splits' = splits + 1
    /\ transcripts' = <<>>
    /\ \E d \in ProbedDurations(duration) :
        /\ probed' = d
        /\ IF SingleChunk(d)
           THEN /\ chunks' = <<mp3_path>>
                /\ num_chunks' = 1
                /\ ci' = 1
                /\ pc' = "chunk"
           ELSE /\ chunks' = <<>>
                /\ num_chunks' = NumChunks(d)
                /\ ci' = 0
                /\ pc' = "extract"
    /\ UNCHANGED <<kind, record, writes, storeFaults, disk, duration, upload,
                   file_path, source_file, mp3_path, title, subtitle_text,
                   error_msg, chunk_path, remote, subprocs, sent, raised,
                   cuts, edits, jobs>>

\* One turn of the loop of split_audio_file: ffmpeg cuts chunk ci. A run
\* that fails is taken to leave no output file behind.
extract_chunk ==
    /\ pc = "extract"
    /\ subprocs' = Append(subprocs, "split")
    /\ cuts' = Append(cuts, Cut(ci))
    /\ \/ /\ \E size \in Sizes :
                disk' = Put(disk, ChunkPath(mp3_path, ci), size)
          /\ chunks' = Append(chunks, ChunkPath(mp3_path, ci))
          /\ ci' = IF ci + 1 = num_chunks THEN 1 ELSE ci + 1
          /\ pc' = IF ci + 1 = num_chunks THEN "chunk" ELSE "extract"
          /\ UNCHANGED <<error_msg, raised>>
       \/ /\ Raise("ffmpeg", "split")
          /\ UNCHANGED <<disk, chunks, ci>>
    /\ UNCHANGED <<kind, record, writes, storeFaults, duration, localVars,
                   num_chunks, chunk_path, transcripts, remote, splits, sent,
                   probed, edits, jobs>>

\* Top of the loop over chunks: a chunk over the ceiling is re-encoded once
\* at 64k into its '_small' sibling and, unless it is the input file, removed.
prepare_chunk ==
    /\ pc = "chunk"
    /\ IF FitsCeiling(disk[chunks[ci]])
       THEN /\ chunk_path' = chunks[ci]
            /\ pc' = "call"
            /\ UNCHANGED <<disk, subprocs, error_msg, raised>>
       ELSE /\ subprocs' = Append(subprocs, "reencode")
            /\ \/ /\ \E size \in Sizes :
                        disk' = IF chunks[ci] # mp3_path
                                THEN Remove(Put(disk, SmallPath(chunks[ci]), size),
                                            chunks[ci])
                                ELSE Put(disk, SmallPath(chunks[ci]), size)
                  /\ chunk_path' = SmallPath(chunks[ci])
                  /\ pc' = "call"
                  /\ UNCHANGED <<error_msg, raised>>
               \/ /\ Raise("ffmpeg", "reencode")
                  /\ UNCHANGED <<disk, chunk_path>>
    /\ UNCHANGED <<kind, record, writes, storeFaults, duration, localVars,
                   chunks, num_chunks, ci, transcripts, remote, splits, newVars, sent>>

\* transcribe_chunk with a failed call skipped over: the loop goes on to the
\* next chunk and the texts of the other chunks are joined and returned.
transcribe_chunk_salvage ==
    /\ pc = "call"
    /\ \E ok \in BOOLEAN :
        LET got == IF ok THEN Append(transcripts, Speech(chunk_path))
                   ELSE transcripts
        IN /\ remote' = Append(remote,
                               Call(chunk_path, disk[chunk_path], ok,
                                    IF ok THEN Speech(chunk_path) ELSE <<>>))
           /\ transcripts' = got
           /\ subtitle_text' = IF ci = Len(chunks) THEN JoinTranscripts(got)
                               ELSE subtitle_text
    /\ disk' = IF chunk_path # mp3_path /\ Exists(chunk_path)
               THEN Remove(disk, chunk_path) ELSE disk
    /\ ci' = ci + 1
    /\ pc' = IF ci = Len(chunks) THEN "cp95" ELSE "chunk"
    /\ UNCHANGED <<kind, record, writes, storeFaults, duration, upload,
                   file_size, file_path, source_file, mp3_path, title, chunks,
                   num_chunks, chunk_path, subprocs, splits, newVars, sent,
                   error_msg, raised>>

\* Rest of the loop body: the chunk is sent whatever its size, its text is
\* appended and the chunk is removed unless it is the input file; after the
\* last chunk the joined text is returned.
transcribe_chunk ==
    /\ pc = "call"
    /\ \/ /\ remote' = Append(remote, Call(chunk_path, disk[chunk_path], TRUE,
                                         Speech(chunk_path)))
          /\ transcripts' = Append(transcripts, Speech(chunk_path))
          /\ subtitle_text' =
                 IF ci = Len(chunks)
                 THEN JoinTranscripts(Append(transcripts, Speech(chunk_path)))
                 ELSE subtitle_text
          /\ disk' = IF chunk_path # mp3_path /\ Exists(chunk_path)
                     THEN Remove(disk, chunk_path) ELSE disk
          /\ ci' = ci + 1
          /\ pc' = IF ci = Len(chunks) THEN "cp95" ELSE "chunk"
          /\ UNCHANGED <<error_msg, raised>>
       \/ /\ remote' = Append(remote,
                              Call(chunk_path, disk[chunk_path], FALSE, <<>>))
          /\ Raise("openai", "transcribe")
          /\ UNCHANGED <<transcripts, subtitle_text, disk, ci>>
    /\ UNCHANGED <<kind, record, writes, storeFaults, duration, upload,
                   file_size, file_path, source_file, mp3_path, title, chunks,
                   num_chunks, chunk_path, subprocs, splits, newVars, sent>>

(* --------------------- persist, notify, clean up ---------------------- *)

\* The fields of the final update of both tasks.
CompletedWrite(text) == Write(Status("completed", ""), 100, "", {text})

\* The fields of the update in the except clause of both tasks.
ErrorWrite(msg) == Write(ErrorStatus(msg), 0, "", {})

\* TempFiles with the mp3 left out of the removal loop.
TempFilesWithoutMp3 == IF kind = "youtube" THEN <<source_file>>
                       ELSE <<file_path>>

\* [source_file, mp3_path] / [file_path, mp3_path]
TempFiles == IF kind = "youtube" THEN <<source_file, mp3_path>>
             ELSE <<file_path, mp3_path>>

RECURSIVE RemoveAll(_, _)
\* for f in fs: if f and os.path.exists(f): os.remove(f)
RemoveAll(d, fs) ==
    IF fs = <<>> THEN d
    ELSE RemoveAll(IF fs[1] # NoPath /\ fs[1] \in DOMAIN d
                   THEN Remove(d, fs[1]) ELSE d, Tail(fs))

\* The final update: subtitle, completed, 100. It is a bare call in the try.
persist ==
    /\ pc = "persist"
    /\ \/ /\ record' = Apply(record, CompletedWrite(subtitle_text))
          /\ writes' = Append(writes, CompletedWrite(subtitle_text))
          /\ pc' = "notify"
          /\ UNCHANGED <<storeFaults, error_msg, raised>>
       \/ /\ StoreMayFail
          /\ storeFaults' = storeFaults + 1
          /\ Raise("store", "persist")
          /\ UNCHANGED <<record, writes>>
    /\ UNCHANGED <<kind, disk, duration, localVars, splitVars, logVars, newVars>>

\* send_telegram_message never raises.
notify_success ==
    /\ pc = "notify"
    /\ sent' = Append(sent, "success")
    /\ pc' = "cleanup"
    /\ UNCHANGED <<kind, record, writes, storeFaults, disk, duration,
                   localVars, error_msg, splitVars, remote, subprocs, splits, newVars,
                   raised>>

\* The removal loop at the end of the try block; os.remove of a file that is
\* there may raise, after the files before it are gone.
cleanup ==
    /\ pc = "cleanup"
    /\ \/ /\ disk' = RemoveAll(disk, TempFiles)
          /\ pc' = "done"
          /\ UNCHANGED <<error_msg, raised>>
       \/ /\ \E k \in 1..Len(TempFiles) :
                /\ TempFiles[k] \in DOMAIN RemoveAll(disk, SubSeq(TempFiles, 1, k - 1))
                /\ disk' = RemoveAll(disk, SubSeq(TempFiles, 1, k - 1))
          /\ Raise("remove", "cleanup")
    /\ UNCHANGED <<kind, record, writes, storeFaults, duration, localVars,
                   splitVars, logVars, newVars>>

\* except Exception: the error update, a bare call; if it raises, the
\* exception leaves the thread.
handler_write ==
    /\ pc = "h_write"
    /\ \/ /\ record' = Apply(record, ErrorWrite(error_msg))
          /\ writes' = Append(writes, ErrorWrite(error_msg))
          /\ pc' = "h_notify"
          /\ UNCHANGED storeFaults
       \/ /\ StoreMayFail
          /\ storeFaults' = storeFaults + 1
          /\ pc' = "crashed"
          /\ UNCHANGED <<record, writes>>
    /\ UNCHANGED <<kind, disk, duration, localVars, error_msg, splitVars,
                   logVars, newVars, raised>>

handler_notify ==
    /\ pc = "h_notify"
    /\ sent' = Append(sent, "failure")
    /\ pc' = "h_cleanup"
    /\ UNCHANGED <<kind, record, writes, storeFaults, disk, duration,
                   localVars, error_msg, splitVars, remote, subprocs, splits, newVars,
                   raised>>

\* The removal loop of the except clause.
handler_cleanup ==
    /\ pc = "h_cleanup"
    /\ \/ /\ disk' = RemoveAll(disk, TempFiles)
          /\ pc' = "done"
       \/ /\ \E k \in 1..Len(TempFiles) :
                /\ TempFiles[k] \in DOMAIN RemoveAll(disk, SubSeq(TempFiles, 1, k - 1))
                /\ disk' = RemoveAll(disk, SubSeq(TempFiles, 1, k - 1))
          /\ pc' = "crashed"
    /\ UNCHANGED <<kind, record, writes, storeFaults, duration, localVars,
                   error_msg, splitVars, logVars, newVars, raised>>

Next ==
    \/ submit_youtube
    \/ upload_file
    \/ update_progress
    \/ resolve_title
    \/ download
    \/ normalize_youtube
    \/ normalize_file
    \/ transcribe_whole
    \/ split_audio_file
    \/ extract_chunk
    \/ prepare_chunk
    \/ transcribe_chunk
    \/ persist
    \/ notify_success
    \/ cleanup
    \/ handler_write
    \/ handler_notify
    \/ handler_cleanup

Spec == Init /\ [][Next]_vars

(* ---------------------------- update-title ---------------------------- *)

\* What a user sends as the new title: blank, or a title.
UserTitles == {"", "U"}

\* TitleOnly with the progress column sent along, as 0.
TitleAndProgress(rec, t) == [rec EXCEPT !.title = t, !.progress = 0]

\* update({"title": title}).eq("id", record_id), applied
TitleOnly(rec, t) == [rec EXCEPT !.title = t]

\* PATCH /api/update/<record_id>: a blank title is refused, any other is
\* written to the row whatever its status; a store failure answers 500.
\* One applied edit per job is followed; edits keeps the status it met.
update_record ==
    /\ pc \notin {"idle", "rejected"}
    /\ \E t \in UserTitles :
        \/ /\ t = ""
           /\ UNCHANGED <<record, edits>>
        \/ /\ t # ""
           /\ edits = {}
           /\ \E ok \in BOOLEAN :
                 IF ok THEN /\ record' = TitleOnly(record, t)
                            /\ edits' = edits \cup {record.status.tag}
                 ELSE UNCHANGED <<record, edits>>
    /\ UNCHANGED <<pc, kind, writes, storeFaults, disk, duration, localVars, error_msg,
                   splitVars, logVars, raised, probed, cuts, jobs>>

NextEdits ==
    \/ Next
    \/ update_record

\* The job with users editing its title at any time.
SpecEdits == Init /\ [][NextEdits]_vars

(* --------------------------- two jobs at once -------------------------- *)

\* Record ids, spelled character by character. uuid.uuid4() and the ids the
\* store assigns are spelled with letters, digits and '-', never '_' or '.';
\* one id may be the beginning of another.
Ids == {<<"a">>, <<"b">>, <<"a", "b">>, <<"a", "-">>}

\* What a thread is started with: a YouTube link, or an upload of some
\* allowed extension.
Tasks == {"youtube"} \cup (UploadExts \cap ALLOWED_EXTENSIONS)

\* The numbers of chunks split_audio_file can cut; 0 stands for no split.
ChunkCounts == {0} \cup {NumChunks(d) : d \in {x \in Durations : ~SingleChunk(x)}}

\* str(i) for the chunk numbers, all below ten here
Digit(i) == <<"0", "1", "2", "3", "4", "5", "6", "7", "8", "9">>[i + 1]

\* The part of a file name that follows the record id, spelled in pieces.
Suffix(p) ==
    IF p.name = "_audio" THEN <<"_", "audio">>
    ELSE IF ~EndsWithMp3(p) THEN <<".", p.name>>
    ELSE (IF p.name = "_chunk_" THEN <<"_", "chunk", "_", Digit(p.i)>> ELSE <<>>)
         \o (IF p.small THEN <<"_", "small">> ELSE <<>>)
         \o <<".", "mp3">>

\* FileName without the record id in front.
FileNameShared(id, p) == Suffix(p)

\* f"{record_id}_audio", f"{record_id}.mp3", f"{record_id}.{ext}",
\* f"{base_name}_chunk_{i}.mp3" and its '_small' sibling, in DOWNLOAD_DIR
FileName(id, p) == id \o Suffix(p)

\* The chunk paths of a job: the mp3 itself when nothing is cut.
JobChunks(n) ==
    IF n = 0 THEN <<Mp3Path>> ELSE [i \in 1..n |-> ChunkPath(Mp3Path, i - 1)]

\* The files a job creates, reads or deletes, in the order it comes to them:
\* the source, the mp3, the chunks, the re-encoded chunks.
JobPaths(task, n, small) ==
    <<(IF task = "youtube" THEN AudioPath ELSE SavedPath(task)), Mp3Path>>
        \o (IF n = 0 THEN <<>> ELSE JobChunks(n))
        \o (IF small THEN [i \in 1..Len(JobChunks(n)) |-> SmallPath(JobChunks(n)[i])]
            ELSE <<>>)

Job(id, task, n, small) ==
    [id |-> id, task |-> task, n |-> n, small |-> small,
     k |-> 0, files |-> {}, rows |-> {}]

\* Two requests are accepted and a thread is started for each. The store's
\* primary key and uuid4 give them different ids.
start_jobs ==
    /\ jobs = <<>>
    /\ \E id1, id2 \in Ids :
        /\ id1 # id2
        /\ \E t1, t2 \in Tasks, n1, n2 \in ChunkCounts, s1, s2 \in BOOLEAN :
              jobs' = <<Job(id1, t1, n1, s1), Job(id2, t2, n2, s2)>>
    /\ UNCHANGED <<mainVars, edits>>

\* One thread comes to its next file and writes its checkpoint to the row
\* .eq("id", record_id), record_id being the argument the thread was given.
job_step ==
    /\ jobs # <<>>
    /\ \E j \in 1..Len(jobs) :
        LET job == jobs[j]
            paths == JobPaths(job.task, job.n, job.small)
        IN /\ job.k < Len(paths)
           /\ jobs' = [jobs EXCEPT
                         ![j].k = job.k + 1,
                         ![j].files = job.files \cup {FileName(job.id, paths[job.k + 1])},
                         ![j].rows = job.rows \cup {job.id}]
    /\ UNCHANGED <<mainVars, edits>>

NextJobs ==
    \/ start_jobs
    \/ job_step

\* Two threads running side by side, in any interleaving.
SpecJobs == Init /\ [][NextJobs]_vars

(* ------------------------------ claims -------------------------------- *)

Range(q) == {q[i] : i \in 1..Len(q)}
IsTerminal(w) == w.status.tag \in {"completed", "error"}
\* The thread of the job has ended: it returned, or an exception left it.
Ended == pc \in {"done", "crashed"}
\* The stages of acquisition, transcoding, splitting and transcription.
StepStages == {"download", "normalize", "split", "reencode", "transcribe"}
\* The loop over the chunks of an oversized file ran to its end.
TranscribeReturned == chunks # <<>> /\ ci = Len(chunks) + 1

\* C1: the progress values the pipeline writes before a terminal write never
\* decrease, and a write carries progress 0 exactly when it carries a status
\* beginning with "error:".
C1_ProgressMonotoneZeroIffError ==
    /\ \A i \in 1..Len(writes) :
          (writes[i].progress = 0) <=> IsError(writes[i].status)
    /\ \A i, j \in 1..Len(writes) :
          (i < j /\ ~IsTerminal(writes[i]) /\ ~IsTerminal(writes[j]))
              => writes[i].progress <= writes[j].progress

\* C1 witness: all eight checkpoints of the YouTube task were written and the
\* final update failed, so the ninth write is the error write.
C1_Witness ==
    /\ kind = "youtube"
    /\ Len(writes) = 9
    /\ writes[8].progress = 95
    /\ IsError(writes[9].status)

\* C2: a terminal write (completed or error:*) is the last write of the job's
\* pipeline, so there is at most one and nothing is written after it.
C2_TerminalWriteIsLast ==
    \A i \in 1..Len(writes) : IsTerminal(writes[i]) => i = Len(writes)

\* C3: the record holds progress 100 only with status completed, and holds a
\* subtitle only with status completed.
C3_HundredAndSubtitleOnlyCompleted ==
    /\ record.progress = 100 => record.status.tag = "completed"
    /\ record.subtitle # {} => record.status.tag = "completed"

\* C4: when a step of acquisition, transcoding, splitting or transcription
\* raised, the job ends with status error:*, progress 0, no subtitle written
\* and exactly one failure message handed to the notification sink.
C4_StepFailureEndsInError ==
    (Ended /\ raised \in StepStages) =>
        /\ IsError(record.status)
        /\ record.progress = 0
        /\ \A i \in 1..Len(writes) : writes[i].subtitle = {}
        /\ sent = <<"failure">>

\* C5: after the failure path of a step failure has run to its end, no file
\* of the job is left in DOWNLOAD_DIR.
C5_FailureLeavesNoTempFile ==
    (pc = "done" /\ raised \in StepStages) => DOMAIN disk = {}

\* C6: after the success path has run to its end, no file of the job is left
\* in DOWNLOAD_DIR, exactly one completed write was made and the record holds
\* completed, 100 and the transcript.
C6_SuccessLeavesNoTempFile ==
    (pc = "done" /\ raised = "") =>
        /\ DOMAIN disk = {}
        /\ Cardinality({i \in 1..Len(writes) :
                            writes[i].status.tag = "completed"}) = 1
        /\ record.status.tag = "completed"
        /\ record.progress = 100
        /\ record.subtitle = {subtitle_text}

\* C6 witness: a successful run that split the audio and re-encoded a chunk.
C6_Witness ==
    /\ pc = "done"
    /\ raised = ""
    /\ Len(chunks) >= 3
    /\ "reencode" \in Range(subprocs)

\* C7: an .mp3 upload within the ceiling is transcribed with exactly one
\* remote call and without an ffmpeg run for splitting or re-encoding.
C7_Mp3UploadOneCall ==
    (pc = "done" /\ kind = "file" /\ upload.ext = "mp3"
                 /\ upload.size <= max_size) =>
           /\ Len(remote) = 1
           /\ Range(subprocs) \cap {"split", "reencode"} = {}

\* C8: a record-store failure at a progress checkpoint (5, 10 with the
\* title, 15, 30, 40, 50, 60, 95) is swallowed: the pipeline goes on to the
\* statement after the checkpoint.
C8_CheckpointFailureSwallowed ==
    [][(pc \in Checkpoints \cup {"title"} /\ storeFaults' = storeFaults + 1)
          => pc' = IF pc = "title" THEN "cp15" ELSE AfterCheckpoint(kind, pc)]_vars

\* C9: every file sent to the remote capability is within the ceiling.
C9_SentWithinCeiling ==
    \A i \in 1..Len(remote) : remote[i].size <= max_size

RECURSIVE BlankLineJoined(_, _)
\* The first n replies of the remote calls, a blank line between neighbours.
BlankLineJoined(calls, n) ==
    IF n = 0 THEN <<>>
    ELSE IF n = 1 THEN calls[1].text
    ELSE BlankLineJoined(calls, n - 1) \o Blank \o calls[n].text

\* C10: for a file over the ceiling the splitter is invoked, the i-th remote
\* call carries the i-th segment (or its re-encoding), segments being numbered
\* 0, 1, 2, ..., and on success the result is the replies joined in that
\* order with a blank line between them.
C10_OversizeOrderedJoin ==
    file_size > max_size =>
        /\ splits = 1
        /\ num_chunks > 1 => \A i \in 1..Len(chunks) : chunks[i].i = i - 1
        /\ Len(remote) <= Len(chunks)
        /\ \A i \in 1..Len(remote) :
              remote[i].path \in {chunks[i], SmallPath(chunks[i])}
        /\ TranscribeReturned =>
              /\ Len(remote) = Len(chunks)
              /\ subtitle_text = BlankLineJoined(remote, Len(remote))

\* C10 witness: an oversized file cut into three segments, all transcribed.
C10_Witness ==
    /\ file_size > max_size
    /\ TranscribeReturned
    /\ Len(chunks) >= 3

\* C11: for a file at or under the ceiling transcribe never enters the
\* splitter, runs no ffmpeg for splitting or re-encoding, makes exactly one
\* remote call, on the file itself, and returns that call's text unchanged.
C11_WithinCeilingOneCall ==
    (0 < file_size /\ file_size <= max_size) =>
        /\ splits = 0
        /\ Range(subprocs) \cap {"split", "reencode"} = {}
        /\ Len(remote) = 1
        /\ remote[1].path = mp3_path
        /\ remote[1].size = file_size
        /\ remote[1].ok <=> raised # "transcribe"
        /\ remote[1].ok => subtitle_text = remote[1].text

\* C11 witness: a file of exactly max_size bytes was transcribed.
C11_Witness ==
    /\ file_size = max_size
    /\ pc = "cp95"
    /\ Len(remote) = 1

\* split_audio_file returned its list of more than one chunk.
SplitReturned == probed > max_duration /\ pc # "extract" /\ raised # "split"

\* Where the chunk cut with '-ss ss -t t' ends in a file of d seconds: ffmpeg
\* stops at the end of the input.
ClampedEnd(cut, d) == IF cut.ss + cut.t <= d THEN cut.ss + cut.t ELSE d

\* The time span of each cut, in the order the cuts were made.
Spans(d) == [i \in 1..Len(cuts) |-> <<cuts[i].ss, ClampedEnd(cuts[i], d)>>]

\* C12: for a duration d over max_duration the splitter returns
\* floor(d / max_duration) + 1 chunks in order, chunk i starting at
\* i * max_duration, and the spans, the last clamped at the end of the file,
\* cover [0, d) with neither gap nor overlap; d = 1500 gives [0,600),
\* [600,1200), [1200,1500).
C12_SplitCoversDuration ==
    /\ \A i \in 1..Len(cuts) : cuts[i].ss = (i - 1) * max_duration
    /\ SplitReturned =>
          /\ Len(chunks) = (probed \div max_duration) + 1
          /\ Len(cuts) = Len(chunks)
          /\ \A i \in 1..Len(chunks) : chunks[i].i = i - 1
          /\ Spans(probed)[1][1] = 0
          /\ \A i \in 1..(Len(cuts) - 1) :
                Spans(probed)[i][2] = Spans(probed)[i + 1][1]
          /\ Spans(probed)[Len(cuts)][2] = probed
          /\ \A i \in 1..Len(cuts) : Spans(probed)[i][1] <= Spans(probed)[i][2]
          /\ probed = 1500 =>
                Spans(probed) = <<(<<0, 600>>), (<<600, 1200>>), (<<1200, 1500>>)>>

\* C12 witness: a 1500-second file was split.
C12_Witness ==
    /\ SplitReturned
    /\ probed = 1500
    /\ Len(chunks) = 3

\* C13: a job whose thread has ended has a terminal record (completed or
\* error:*); none is left pending or processing.
C13_EndedJobIsTerminal ==
    Ended => record.status.tag \in {"completed", "error"}

\* C14: between creation and the terminal state no operation other than the
\* job's pipeline writes the record: update-title stores a title only under a
\* terminal status.
C14_OnlyPipelineWrites ==
    edits \subseteq {"completed", "error"}

\* C14, amended: status, progress and subtitle of the record change only in a
\* step in which the job's own pipeline applies a write (or the row is
\* inserted); update-title changes the title alone, under any status.
C14_PipelineOwnsStatusProgressSubtitle ==
    [][(\/ record'.status # record.status
        \/ record'.progress # record.progress
        \/ record'.subtitle # record.subtitle)
          => (pc = "idle" \/ Len(writes') = Len(writes) + 1)]_vars

\* C14 witness: a title edit arrived while the job was processing and the
\* job went on to completed, the user's title still in the row.
C14_Witness ==
    /\ "processing" \in edits
    /\ record.status.tag = "completed"
    /\ record.progress = 100
    /\ record.title = "U"

\* C15: two jobs with different ids running side by side never come to the
\* same temporary file (source, mp3, chunk or re-encoded chunk), and each
\* writes only the row of its own id.
C15_JobsShareNoFileNoRow ==
    \A i, j \in 1..Len(jobs) :
        i # j => /\ jobs[i].files \cap jobs[j].files = {}
                 /\ jobs[j].id \notin jobs[i].rows

\* C15 witness: the ids are "a" and "ab", both jobs cut chunks and re-encoded
\* them, and both have come to all their files.
C15_Witness ==
    /\ Len(jobs) = 2
    /\ jobs[1].id = <<"a">> /\ jobs[2].id = <<"a", "b">>
    /\ \A j \in 1..2 :
          /\ jobs[j].n > 0 /\ jobs[j].small
          /\ jobs[j].k = Len(JobPaths(jobs[j].task, jobs[j].n, jobs[j].small))
          /\ jobs[j].rows = {jobs[j].id}

\* C16: in the oversized case, once the transcription call on a segment has
\* returned or raised, the segment file and its re-encoded sibling are gone
\* from the disk, and the input file of transcribe is still there.
C16_IntermediateRemovedAfterCall ==
    [][(pc = "call" /\ Len(remote') = Len(remote) + 1) =>
          /\ \A p \in {chunks[ci], SmallPath(chunks[ci])} \ {mp3_path} :
                p \notin DOMAIN disk'
          /\ mp3_path \in DOMAIN disk']_vars

\* C17: a failed remote call is the last call of the job and leaves the job
\* in the failure path of transcription; no segment is submitted twice; and
\* once a call has failed no text is returned to the task or written to the
\* record.
C17_RemoteFailureAborts ==
    /\ \A i \in 1..Len(remote) :
          ~remote[i].ok =>
              /\ i = Len(remote)
              /\ raised = "transcribe"
              /\ pc \in {"h_write", "h_notify", "h_cleanup", "done", "crashed"}
              /\ subtitle_text = <<>>
              /\ record.subtitle = {}
              /\ \A w \in 1..Len(writes) : writes[w].subtitle = {}
    /\ \A i, j \in 1..Len(remote) :
          remote[i].path = remote[j].path => i = j

\* C17 witness: the file was cut in three, the call on the second chunk
\* failed after the first had succeeded, and the task has ended.
C17_Witness ==
    /\ Len(chunks) = 3
    /\ Len(remote) = 2
    /\ remote[1].ok
    /\ ~remote[2].ok
    /\ Ended

\* C18: when the probe gave 0 (it failed) or any duration up to max_duration,
\* split_audio_file returned the one-element list holding its input file,
\* computed no chunk count from the duration and ran no ffmpeg to cut.
C18_ShortOrUnknownNotSplit ==
    (splits = 1 /\ 0 <= probed /\ probed <= max_duration) =>
        /\ chunks = <<mp3_path>>
        /\ num_chunks = 1
        /\ cuts = <<>>
        /\ "split" \notin Range(subprocs)

\* C18 witness: ffprobe failed on a file that is in fact longer than
\* max_duration, and the file itself went on to the remote call.
C18_Witness ==
    /\ splits = 1
    /\ probed = 0
    /\ duration > max_duration
    /\ Len(remote) = 1
    /\ remote[1].path \in {mp3_path, SmallPath(mp3_path)}

\* C19: send_telegram_message is called at most once for the job; the
\* success message is sent only after the completed update was written; and
\* the job never sends both a success and a failure message.
C19_AtMostOneNotification ==
    /\ Len(sent) <= 1
    /\ "success" \in Range(sent) =>
           \E i \in 1..Len(writes) : writes[i].status.tag = "completed"
    /\ ~("success" \in Range(sent) /\ "failure" \in Range(sent))

====
